---- MODULE Spec2Model ----
(***************************************************************************)
(* Model of the code-generation core of vite-plugin-vue:                   *)
(*   - the AST insertion-point rewriter (injectIntoComponent and           *)
(*     transformScript),                                                   *)
(*   - the module assembler transformMain with its helpers,                *)
(*   - the query encoder attrsToQuery.                                     *)
(* Text is a sequence of lexical units (one unit per script character, one *)
(* unit per literal fragment of generated code); offsets and lengths count *)
(* units.                                                                  *)
(***************************************************************************)
EXTENDS Integers, Sequences, FiniteSets, TLC

\* ------------------------------------------------------------------ bounds
MaxLen == 3
MaxIns == 3

Alphabet == {"a", "b"}
None == "none"

\* ------------------------------------------------------- generic text help
RECURSIVE Concat(_)
Concat(parts) ==
  IF parts = <<>> THEN <<>> ELSE Head(parts) \o Concat(Tail(parts))

RECURSIVE Join(_, _)
Join(parts, sep) ==
  IF parts = <<>> THEN <<>>
  ELSE IF Len(parts) = 1 THEN Head(parts)
  ELSE Head(parts) \o <<sep>> \o Join(Tail(parts), sep)

Min(a, b) == IF a < b THEN a ELSE b

\* String.prototype.slice(start, end) for non-negative offsets
Slice(s, start, end) ==
  LET e == Min(end, Len(s))
      b == Min(start, Len(s))
  IN IF e <= b THEN <<>> ELSE SubSeq(s, b + 1, e)

SliceFrom(s, start) == Slice(s, start, Len(s))

\* JSON.stringify of a plain identifier-like string
JSONString(k) == <<"\"", k, "\"">>

\* ------------------------------------------------ rewriteAsIIFE (part_000)
HookLines(kind, expr) ==
  IF kind = "hmr"
  THEN << <<"typeof __VUE_HMR_RUNTIME__ !== 'undefined' && ",
            "__VUE_HMR_RUNTIME__.createRecord(", expr, ".__hmrId, ", expr, ")">> >>
  ELSE << <<"const { setup } = ", expr>>,
          <<expr, ".setup = (props, ctx) => {">>,
          <<"  const ssrContext = __vite_useSSRContext()">>,
          <<"  ;(ssrContext.modules || (ssrContext.modules = new Set())).add(",
            "\"", "FILE", "\"", ")">>,
          <<"  return setup ? setup(props, ctx) : undefined">>,
          <<"}">> >>

RECURSIVE AllHookLines(_)
AllHookLines(hs) ==
  IF hs = <<>> THEN <<>>
  ELSE HookLines(Head(hs), "sfc_main") \o AllHookLines(Tail(hs))

PropsToAssign(ps) ==
  Join([i \in 1..Len(ps) |-> JSONString(ps[i][1]) \o <<": ">> \o ps[i][2]], ", ")

rewriteAsIIFE(ps, hs, expr) ==
  IF Len(ps) = 0 /\ Len(hs) = 0
  THEN expr
  ELSE Join(<< <<"(() => {">>,
               <<"const sfc_main = /*#__PURE__*/ Object.assign(">> \o expr
                 \o <<", { ">> \o PropsToAssign(ps) \o <<" })">> >>
            \o AllHookLines(hs)
            \o << <<"return sfc_main">>, <<"})()">> >>,
            "\n")

\* --------------------------------------------- transformScript (part_000)
\* insertions.sort((a, b) => b.start - a.start): stable, descending start
RECURSIVE InsertDesc(_, _)
InsertDesc(x, sorted) ==
  IF sorted = <<>> THEN <<x>>
  ELSE IF Head(sorted).start >= x.start
       THEN <<Head(sorted)>> \o InsertDesc(x, Tail(sorted))
       ELSE <<x>> \o sorted

RECURSIVE SortDesc(_)
SortDesc(ins) ==
  IF ins = <<>> THEN <<>>
  ELSE InsertDesc(ins[Len(ins)], SortDesc(SubSeq(ins, 1, Len(ins) - 1)))

InterlacingPairNever(prior, later) ==
  later.start < prior.end /\ later.end < prior.start

\* rejects partial overlap only, accepting a range nested in another
InterlacingPairPartial(prior, later) ==
  later.start < prior.end /\ later.end > prior.end

InterlacingPair(prior, later) ==
  later.start < prior.end /\ later.end > prior.start

Interlacing(ins) ==
  \E i \in 1..(Len(ins) - 1) : InterlacingPair(ins[i + 1], ins[i])

\* the loop over the pending insertions with its early break
RECURSIVE UpdateOthers(_, _, _)
UpdateOthers(others, end, delta) ==
  IF others = <<>> THEN <<>>
  ELSE IF Head(others).end >= end
       THEN <<[Head(others) EXCEPT !.end = @ + delta]>>
            \o UpdateOthers(Tail(others), end, delta)
       ELSE others

NextInsertionLast(ins) == ins[Len(ins)]

\* insertions.shift(): the rightmost pending insertion point
NextInsertion(ins) == Head(ins)

RestInsertions(ins) ==
  LET cur == NextInsertion(ins)
      i == CHOOSE j \in 1..Len(ins) : ins[j] = cur /\
             \A k \in 1..Len(ins) : ins[k] = cur => j <= k
  IN SubSeq(ins, 1, i - 1) \o SubSeq(ins, i + 1, Len(ins))

SpliceAt(text, start, end, replacement) ==
  Slice(text, 0, start) \o replacement \o SliceFrom(text, end)

\* one iteration of the while loop: returns the new text and pending list
RewriteOne(text, ins, ps, hs) ==
  LET insertion == NextInsertion(ins)
      rest == RestInsertions(ins)
      content == Slice(text, insertion.start, insertion.end)
      replacement == rewriteAsIIFE(ps, hs, content)
      delta == Len(replacement) - Len(content)
  IN [text |-> SpliceAt(text, insertion.start, insertion.end, replacement),
      insertions |-> UpdateOthers(rest, insertion.end, delta),
      delta |-> delta]

\* ------------------------------------------------- attrsToQuery (main.ts)
\* an attribute map is the sequence of its <<name, value>> entries in the
\* object's own property order (the order `for ... in` visits them); a value
\* is a string or the boolean true of a bare attribute
BoolTrue == "<true>"

ignoreListShort ==
  {"id", "index", "src", "type", "lang", "module", "scoped"}

ignoreList ==
  {"id", "index", "src", "type", "lang", "module", "scoped", "generic"}

\* template-literal conversion of an attribute value
ToText(v) == IF v = BoolTrue THEN "true" ELSE v

\* encodeURIComponent on the strings the model uses
encodeURIComponent(v) ==
  CASE ToText(v) = "a b" -> "a%20b"
    [] ToText(v) = "k&v" -> "k%26v"
    [] OTHER -> ToText(v)

HasAttr(attrs, name) == \E i \in 1..Len(attrs) : attrs[i][1] = name

AttrValue(attrs, name) ==
  attrs[CHOOSE i \in 1..Len(attrs) : attrs[i][1] = name][2]

RECURSIVE AttrsLoop(_)
AttrsLoop(attrs) ==
  IF attrs = <<>> THEN <<>>
  ELSE LET name == Head(attrs)[1]
           value == Head(attrs)[2]
       IN (IF name \notin ignoreList
           THEN <<"&", encodeURIComponent(name)>>
                \o (IF value # "" THEN <<"=", encodeURIComponent(value)>>
                    ELSE <<>>)
           ELSE <<>>)
          \o AttrsLoop(Tail(attrs))

LangParam(tag) == <<"&lang", ".", ToText(tag)>>

Undefined == "<undefined>"

Falsy(v) == v = Undefined \/ v = ""

attrsToQuery(attrs, langFallback, forceLangFallback) ==
  AttrsLoop(attrs)
  \o (IF ~Falsy(langFallback) \/ (HasAttr(attrs, "lang") /\ AttrValue(attrs, "lang") # "")
      THEN IF HasAttr(attrs, "lang")
           THEN IF forceLangFallback
                THEN LangParam(langFallback)
                ELSE LangParam(AttrValue(attrs, "lang"))
           ELSE LangParam(langFallback)
      ELSE <<>>)

\* pure form of transformScript's loop and of injectIntoComponent
RECURSIVE RewriteAll(_, _, _, _)
RewriteAll(text, ins, ps, hs) ==
  IF ins = <<>> THEN text
  ELSE LET r == RewriteOne(text, ins, ps, hs)
       IN RewriteAll(r.text, r.insertions, ps, hs)

transformScript(text, nodes, ps, hs) ==
  LET sorted == SortDesc(nodes) IN
  IF Interlacing(sorted)
  THEN [thrown |-> TRUE, count |-> Len(nodes), script |-> text]
  ELSE [thrown |-> FALSE, count |-> Len(nodes),
        script |-> RewriteAll(text, sorted, ps, hs)]

injectIntoComponent(text, calls, exports, ps, hs) ==
  LET first == transformScript(text, calls, ps, hs)
      second == transformScript(text, exports, ps, hs)
  IN IF first.thrown THEN [thrown |-> TRUE, code |-> <<>>]
     ELSE IF first.count > 0 THEN [thrown |-> FALSE, code |-> first.script]
     ELSE IF second.thrown THEN [thrown |-> TRUE, code |-> <<>>]
     ELSE IF second.count > 0 THEN [thrown |-> FALSE, code |-> second.script]
     ELSE [thrown |-> FALSE,
           code |-> <<"export default ">> \o rewriteAsIIFE(ps, hs, <<"{}">>)]

\* ------------------------------------------------ descriptors and options
Filename == "/src/A.vue"
Basename == "A.vue"
DescId == "ID"
scriptIdentifier == "_sfc_main"

NoBlock == [present |-> FALSE]
NoMap == [present |-> FALSE]
NoDesc == [present |-> FALSE]

HasScoped(d) == \E i \in 1..Len(d.styles) : d.styles[i].scoped

\* path.extname(src).slice(1)
ExtName(src) ==
  CASE src = "./s.ts" -> "ts"
    [] src = "./t.pug" -> "pug"
    [] src = "./x.scss" -> "scss"
    [] OTHER -> ""

\* JSON.stringify of a request string
JSONText(t) == <<"\"">> \o t \o <<"\"">>

\* --------------------------------------- collaborators outside main.ts
\* resolveScript: the compiled script of the descriptor, if it has one
resolveScript(d) == d.script

\* canInlineMain: host-language script without external reference
canInlineMain(d) ==
  d.script.src = None /\ d.script.lang \in {None, "js", "ts"}

\* isUseInlineTemplate(descriptor, isProd): the template is compiled inside
\* the <script setup> block of a build without dev server
isUseInlineTemplate(d, isProd) ==
  isProd /\ d.script.present /\ d.script.setup /\ d.template.src = None

\* transformTemplateInMain: compiled render function and its map
transformTemplateInMain(d, ssr) ==
  [code |-> <<"function ", IF ssr THEN "_sfc_ssrRender" ELSE "_sfc_render",
              "() { /* template ", ToString(d.template.content), " */ }">>,
   map |-> d.template.map]

\* isEqualBlock: exact equality of two optional blocks
isEqualBlock(a, b) ==
  IF ~a.present \/ ~b.present THEN a.present = b.present
  ELSE /\ a.content = b.content
       /\ a.src = b.src
       /\ a.attrs = b.attrs

\* isOnlyTemplateChanged: the template is the only region that differs
isOnlyTemplateChanged(p, d) ==
  /\ ~isEqualBlock(p.template, d.template)
  /\ isEqualBlock(p.script, d.script)
  /\ Len(p.styles) = Len(d.styles)
  /\ \A i \in 1..Len(p.styles) : isEqualBlock(p.styles[i], d.styles[i])
  /\ Len(p.customBlocks) = Len(d.customBlocks)
  /\ \A i \in 1..Len(p.customBlocks) :
       isEqualBlock(p.customBlocks[i], d.customBlocks[i])

\* createRollupError: the parser's error positioned in the file
createRollupError(filename, error) ==
  [id |-> filename, plugin |-> "vue", message |-> error.message,
   loc |-> error.loc]

\* ------------------------------------------------ genScriptCode (main.ts)
genScriptCode(d) ==
  LET script_ == resolveScript(d) IN
  IF ~script_.present
  THEN [code |-> <<"const ", scriptIdentifier, " = {}">>, map |-> NoMap,
        calls |-> <<>>, exports |-> <<>>, linked |-> {}]
  ELSE IF canInlineMain(d)
  THEN [code |-> script_.content, map |-> script_.map,
        calls |-> script_.calls, exports |-> script_.exports, linked |-> {}]
  ELSE
    LET src == IF script_.src # None THEN script_.src ELSE Filename
        langFallback == IF script_.src # None /\ ExtName(src) # ""
                        THEN ExtName(src) ELSE "js"
        attrsQuery == attrsToQuery(script_.attrs, langFallback, FALSE)
        srcQuery == IF script_.src # None THEN <<"&src=", "true">> ELSE <<>>
        query == <<"?vue&type=script">> \o srcQuery \o attrsQuery
        request == JSONText(<<src>> \o query)
        code == Join(<< <<"import sfc_main from ">> \o request,
                        <<"export * from ">> \o request,
                        <<"export default ", "sfc_main">> >>, "\n")
    IN [code |-> code, map |-> NoMap, calls |-> <<>>,
        exports |-> << [start |-> Len(code) - 1, end |-> Len(code)] >>,
        linked |-> IF script_.src # None
                   THEN {[src |-> script_.src, scoped |-> FALSE]} ELSE {}]

\* ---------------------------------------------- genTemplateCode (main.ts)
genTemplateCode(d, ssr) ==
  LET template == d.template
      hasScoped == HasScoped(d)
  IN
  IF (template.lang = None \/ template.lang = "html") /\ template.src = None
  THEN [code |-> transformTemplateInMain(d, ssr).code,
        map |-> transformTemplateInMain(d, ssr).map, linked |-> {}]
  ELSE
    LET src == IF template.src # None THEN template.src ELSE Filename
        srcQuery == IF template.src # None
                    THEN IF hasScoped THEN <<"&src=", DescId>>
                         ELSE <<"&src=", "true">>
                    ELSE <<>>
        scopedQuery == IF hasScoped THEN <<"&scoped=", DescId>> ELSE <<>>
        attrsQuery == attrsToQuery(template.attrs, "js", TRUE)
        query == <<"?vue&type=template">> \o srcQuery \o scopedQuery
                 \o attrsQuery
        request == JSONText(<<src>> \o query)
        renderFnName == IF ssr THEN "ssrRender" ELSE "render"
    IN [code |-> <<"import { ", renderFnName, " as _sfc_", renderFnName,
                   " } from ">> \o request,
        map |-> NoMap,
        linked |-> IF template.src # None
                   THEN {[src |-> template.src, scoped |-> hasScoped]}
                   ELSE {}]

\* ------------------------------------------------- genStyleCode (main.ts)
StyleQueryScopedFirst(i, srcQuery, directQuery, scopedQuery) ==
  <<"?vue&type=style", "&index=", ToString(i)>>
  \o srcQuery \o scopedQuery \o directQuery

\* `?vue&type=style&index=${i}${srcQuery}${directQuery}${scopedQuery}`
StyleQuery(i, srcQuery, directQuery, scopedQuery) ==
  <<"?vue&type=style", "&index=", ToString(i)>>
  \o srcQuery \o directQuery \o scopedQuery

\* src + query + attrsQuery for the style with (0-based) index i
StyleRequest(style, i, asCustomElement) ==
  LET src == IF style.src # None THEN style.src ELSE Filename
      attrsQuery == attrsToQuery(style.attrs, "css", FALSE)
      srcQuery == IF style.src # None
                  THEN IF style.scoped THEN <<"&src=", DescId>>
                       ELSE <<"&src=", "true">>
                  ELSE <<>>
      directQuery == IF asCustomElement THEN <<"&inline">> ELSE <<>>
      scopedQuery == IF style.scoped THEN <<"&scoped=", DescId>> ELSE <<>>
  IN <<src>> \o StyleQuery(i, srcQuery, directQuery, scopedQuery)
     \o attrsQuery

\* request.replace(/\.(\w+)$/, '.module.$1')
ModuleRequest(request) ==
  LET n == Len(request) IN
  IF n >= 2 /\ request[n - 1] = "." /\ request[n] \notin {"", "a b", "k&v"}
  THEN SubSeq(request, 1, n - 2) \o <<".module.", request[n]>>
  ELSE request

genCSSModulesCode(index, request, moduleName) ==
  LET styleVar == <<"style", ToString(index)>>
      exposedName == IF moduleName # BoolTrue THEN moduleName ELSE "$style"
  IN [importCode |-> <<"\n", "import ">> \o styleVar \o <<" from ">>
                     \o JSONText(ModuleRequest(request)),
      key |-> exposedName, value |-> styleVar]

\* Object.assign(cssModulesMap, { [key]: value })
AssignKey(map, key, value) ==
  IF \E i \in 1..Len(map) : map[i][1] = key
  THEN [i \in 1..Len(map) |->
          IF map[i][1] = key THEN <<key, value>> ELSE map[i]]
  ELSE Append(map, <<key, value>>)

\* the loop over descriptor.styles, from the style with 0-based index i on
RECURSIVE StyleLoop(_, _, _, _)
StyleLoop(d, i, asCustomElement, acc) ==
  IF acc.thrown \/ i >= Len(d.styles) THEN acc
  ELSE
    LET style == d.styles[i + 1]
        styleRequest == StyleRequest(style, i, asCustomElement)
        linked == IF style.src # None
                  THEN acc.linked \cup {[src |-> style.src, scoped |-> style.scoped]}
                  ELSE acc.linked
        requests == Append(acc.requests, styleRequest)
    IN
    IF style.module # None
    THEN IF asCustomElement
         THEN [acc EXCEPT !.thrown = TRUE, !.linked = linked]
         ELSE LET m == genCSSModulesCode(i, styleRequest, style.module) IN
              StyleLoop(d, i + 1, asCustomElement,
                [acc EXCEPT !.code = @ \o m.importCode,
                            !.cssModulesMap = AssignKey(@, m.key, m.value),
                            !.hasModules = TRUE,
                            !.linked = linked, !.requests = requests])
    ELSE StyleLoop(d, i + 1, asCustomElement,
           [acc EXCEPT !.code = @ \o
                         (IF asCustomElement
                          THEN <<"\n", "import _style_", ToString(i), " from ">>
                               \o JSONText(styleRequest)
                          ELSE <<"\n", "import ">> \o JSONText(styleRequest)),
                       !.linked = linked, !.requests = requests])

RECURSIVE MappingCode(_)
MappingCode(map) ==
  IF map = <<>> THEN <<>>
  ELSE <<"\"", Head(map)[1], "\":">> \o Head(map)[2] \o <<",", "\n">>
       \o MappingCode(Tail(map))

genStyleCode(d, asCustomElement, attached) ==
  LET loop == StyleLoop(d, 0, asCustomElement,
                [code |-> <<>>, cssModulesMap |-> <<>>, hasModules |-> FALSE,
                 linked |-> {}, requests |-> <<>>, thrown |-> FALSE])
      stylesProp ==
        <<"styles",
          <<"[">> \o Join([i \in 1..Len(d.styles) |->
                             <<"_style_", ToString(i - 1)>>], ",") \o <<"]">> >>
      attached1 == IF Len(d.styles) > 0 /\ asCustomElement
                   THEN Append(attached, stylesProp) ELSE attached
  IN [thrown |-> loop.thrown,
      requests |-> loop.requests,
      linked |-> loop.linked,
      code |-> IF loop.hasModules
               THEN loop.code \o <<"\n", "const cssModules = ", "{", "\n">>
                    \o MappingCode(loop.cssModulesMap) \o <<"}">>
               ELSE loop.code,
      attached |-> IF loop.hasModules
                   THEN Append(attached1, <<"__cssModules", <<"cssModules">>>>)
                   ELSE attached1]

\* ------------------------------------------- genCustomBlockCode (main.ts)
RECURSIVE CustomLoop(_, _)
CustomLoop(d, index) ==
  IF index >= Len(d.customBlocks) THEN [code |-> <<>>, linked |-> {}]
  ELSE
    LET block == d.customBlocks[index + 1]
        src == IF block.src # None THEN block.src ELSE Filename
        attrsQuery == attrsToQuery(block.attrs, block.type, FALSE)
        srcQuery == IF block.src # None THEN <<"&src=", "true">> ELSE <<>>
        query == <<"?vue&type=", block.type, "&index=", ToString(index)>>
                 \o srcQuery \o attrsQuery
        request == JSONText(<<src>> \o query)
        rest == CustomLoop(d, index + 1)
    IN [code |-> <<"import block", ToString(index), " from ">> \o request
                 \o <<"\n">>
                 \o <<"if (typeof block", ToString(index),
                      " === 'function') block", ToString(index),
                      "(_sfc_main)", "\n">>
                 \o rest.code,
        linked |-> (IF block.src # None
                    THEN {[src |-> block.src, scoped |-> FALSE]} ELSE {})
                   \cup rest.linked]

genCustomBlockCode(d) == CustomLoop(d, 0)

\* ------------------------------------ source map composition (main.ts)
\* scriptCode.match(/\r?\n/g)?.length ?? 0
LineBreaks(text) == Cardinality({i \in 1..Len(text) : text[i] = "\n"})

LineOffsetNoPlusOne(scriptCode) == LineBreaks(scriptCode)

LineOffset(scriptCode) == LineBreaks(scriptCode) + 1

ComposeMaps(scriptMap, templateMap, scriptCode) ==
  LET offset == LineOffset(scriptCode) IN
  [present |-> TRUE,
   mappings |-> scriptMap.mappings \cup
     {[m EXCEPT !.genLine = @ + offset] :
        m \in {t \in templateMap.mappings : t.source # None}},
   sourcesContent |-> templateMap.sourcesContent]

ResolveMap(sourceMap, scriptMap, templateMap, scriptCode) ==
  IF ~sourceMap THEN NoMap
  ELSE IF scriptMap.present /\ templateMap.present
  THEN ComposeMaps(scriptMap, templateMap, scriptCode)
  ELSE IF scriptMap.present THEN scriptMap ELSE templateMap

\* --------------------------------------------------- transformMain (main.ts)
HmrActiveWithSsr(o) ==
  o.devServer /\ o.hmr /\ ~o.isProduction

\* devServer && devServer.config.server.hmr !== false && !ssr && !isProduction
HmrActive(o) ==
  o.devServer /\ o.hmr /\ ~o.ssr /\ ~o.isProduction

RerenderOnlyMarker == <<"export const _rerender_only = true">>

AcceptBlock ==
  << <<"import.meta.hot.accept(mod => {">>,
     <<"  if (!mod) return">>,
     <<"  const { default: updated, _rerender_only } = mod">>,
     <<"  if (_rerender_only) {">>,
     <<"    __VUE_HMR_RUNTIME__.rerender(updated.__hmrId, updated.render)">>,
     <<"  } else {">>,
     <<"    __VUE_HMR_RUNTIME__.reload(updated.__hmrId, updated)">>,
     <<"  }">>,
     <<"})">> >>

SsrImport == <<"import { useSSRContext as __vite_useSSRContext } from 'vue'">>

RenderProp(ssr) ==
  IF ssr THEN <<"ssrRender", <<"_sfc_ssrRender">>>>
  ELSE <<"render", <<"_sfc_render">>>>

NoopRenderProp(ssr) ==
  <<IF ssr THEN "ssrRender" ELSE "render", <<"() => {}">>>>

ReportFirst(errors) ==
  <<createRollupError(Filename, errors[1])>>

\* errors.forEach((error) => pluginContext.error(createRollupError(...)))
ReportAll(errors) ==
  [i \in 1..Len(errors) |-> createRollupError(Filename, errors[i])]

\* descriptor.template && !isUseInlineTemplate(descriptor, !devServer)
HasTemplateImport(d, o) ==
  d.template.present /\ ~isUseInlineTemplate(d, ~o.devServer)

\* the render property pushed after template generation
TemplateProps(d, p, o) ==
  IF HasTemplateImport(d, o) THEN <<RenderProp(o.ssr)>>
  ELSE IF p.present /\ ~isEqualBlock(d.template, p.template)
       THEN <<NoopRenderProp(o.ssr)>>
       ELSE <<>>

\* attachedProps after the __scopeId, __file and __hmrId pushes
FeatureProps(d, o, attached) ==
  LET ap2 == IF HasScoped(d)
             THEN Append(attached,
                         <<"__scopeId", JSONText(<<"data-v-", DescId>>)>>)
             ELSE attached
      ap3 == IF o.devToolsEnabled \/ (o.devServer /\ ~o.isProduction)
             THEN Append(ap2, <<"__file",
                    JSONText(<<IF o.isProduction THEN Basename ELSE Filename>>)>>)
             ELSE ap2
  IN IF HmrActive(o) THEN Append(ap3, <<"__hmrId", JSONText(<<DescId>>)>>)
     ELSE ap3

FeatureHooks(o) ==
  (IF HmrActive(o) THEN <<"hmr">> ELSE <<>>)
  \o (IF o.ssr THEN <<"ssr">> ELSE <<>>)

\* the output array before the injected script is pushed
FeatureOutput(d, p, o, templateCode_, stylesCode_, customBlocksCode_) ==
  (IF o.ssr THEN <<SsrImport>> ELSE <<>>)
  \o <<templateCode_, stylesCode_, customBlocksCode_>>
  \o (IF HmrActive(o)
      THEN (IF p.present /\ isOnlyTemplateChanged(p, d)
            THEN <<RerenderOnlyMarker>> ELSE <<>>)
           \o AcceptBlock
      ELSE <<>>)

\* lang && /tsx?$/.test(lang) && !descriptor.script?.src
NeedsLowering(d) ==
  /\ d.script.present
  /\ d.script.lang \in {"ts", "tsx"}
  /\ ~(~d.script.setup /\ d.script.src # None)

ReturnValue(d, resolvedCode, resolvedMap) ==
  [kind |-> "module",
   code |-> resolvedCode,
   lowered |-> NeedsLowering(d),
   map |-> IF resolvedMap.present THEN resolvedMap
           ELSE [present |-> TRUE, mappings |-> {}, sourcesContent |-> None],
   lang |-> IF d.script.present /\ d.script.lang # None THEN d.script.lang
            ELSE "js"]

\* ----------------------------------------------------------------- inputs
Scripts == UNION {[1..n -> Alphabet] : n \in 0..MaxLen}

Ranges(len) == {[start |-> s, end |-> e] : s \in 0..len, e \in 0..len}

\* AST nodes have a non-empty extent inside the parsed text
NodeRanges(len) == {r \in Ranges(len) : r.start < r.end}

Injective(f) == \A i, j \in DOMAIN f : f[i] = f[j] => i = j

NodeSeqs(len, max) ==
  {f \in UNION {[1..n -> NodeRanges(len)] : n \in 0..max} : Injective(f)}

PropRender == <<"render", <<"_sfc_render">>>>
PropScopeId == <<"__scopeId", <<"\"", "data-v-", "ID", "\"">>>>

RewriterInputs ==
  { [props |-> <<>>, hooks |-> <<>>],
    [props |-> <<PropRender>>, hooks |-> <<>>],
    [props |-> <<PropRender, PropScopeId>>, hooks |-> <<"hmr", "ssr">>] }

MaxAttrs == 3

AttrNames == {"id", "lang", "generic", "foo", "a b"}
AttrValues == {"", "bar", "x", "k&v", BoolTrue}

AttrMaps ==
  {f \in UNION {[1..n -> AttrNames \X AttrValues] : n \in 0..MaxAttrs} :
     \A i, j \in DOMAIN f : f[i][1] = f[j][1] => i = j}

Fallbacks == {"css", "js", Undefined}

\* ---- inputs of transformMain
MaxLines == 2
MaxStyles == 2

E1 == [message |-> "Element is missing end tag.", loc |-> <<1, 1>>]
E2 == [message |-> "Invalid end tag.", loc |-> <<3, 7>>]
ErrorLists == {<<>>, <<E1>>, <<E1, E2>>}

Mapping(gl, gc, src, ol, oc) ==
  [genLine |-> gl, genCol |-> gc, source |-> src, origLine |-> ol,
   origCol |-> oc]

TemplateMappingPool ==
  { Mapping(1, 0, Basename, 3, 2), Mapping(2, 4, Basename, 4, 0),
    Mapping(1, 7, None, 0, 0), Mapping(3, 0, None, 0, 0) }

MapOf(ms, content) ==
  [present |-> TRUE, mappings |-> ms, sourcesContent |-> content]

DefaultTemplateMap ==
  MapOf({Mapping(1, 0, Basename, 3, 2), Mapping(1, 7, None, 0, 0)}, "new")

Template(content, src, lang, attrs, map) ==
  [present |-> TRUE, content |-> content, src |-> src, lang |-> lang,
   attrs |-> attrs, map |-> map]

T1 == Template(1, None, None, <<>>, DefaultTemplateMap)
T2 == Template(2, None, None, <<>>, DefaultTemplateMap)
T3 == Template(1, "./t.pug", "pug",
               << <<"src", "./t.pug">>, <<"lang", "pug">> >>, NoMap)

Templates == {NoBlock, T1, T2, T3}

ScriptBlock(setup, src, lang, attrs, content, map, calls) ==
  [present |-> TRUE, setup |-> setup, src |-> src, lang |-> lang,
   attrs |-> attrs, content |-> content, map |-> map, calls |-> calls,
   exports |-> << [start |-> Len(content) - 1, end |-> Len(content)] >>]

DefaultScriptMap == MapOf({Mapping(1, 0, Basename, 5, 0)}, "old")

ScriptA ==
  ScriptBlock(FALSE, None, None, <<>>,
    <<"import x from 'x'", "\n", "export default ", "{ name: 'A' }">>,
    DefaultScriptMap, <<>>)

ScriptB ==
  ScriptBlock(FALSE, None, "ts", << <<"lang", "ts">> >>,
    <<"const Inner = ", "defineComponent({})", "\r", "\n",
      "export default ", "defineComponent({ Inner })">>,
    NoMap, << [start |-> 1, end |-> 2], [start |-> 5, end |-> 6] >>)

ScriptSetup ==
  ScriptBlock(TRUE, None, None, << <<"setup", BoolTrue>> >>,
    <<"const a = 1", "\n", "\n", "export default ", "{ setup() {} }">>,
    DefaultScriptMap, <<>>)

ScriptExt ==
  ScriptBlock(FALSE, "./s.ts", "ts",
    << <<"src", "./s.ts">>, <<"lang", "ts">> >>, <<"", "">>, NoMap, <<>>)

\* an inline script of n statements, each followed by a line break
ScriptLines(n, map) ==
  ScriptBlock(FALSE, None, None, <<>>,
    Concat([i \in 1..n |-> IF i % 2 = 0 THEN <<"stmt", "\r", "\n">>
                           ELSE <<"stmt", "\n">>])
    \o <<"export default ", "{}">>,
    map, <<>>)

Style(scoped, src, module, extra) ==
  [present |-> TRUE, content |-> "css", scoped |-> scoped, src |-> src,
   module |-> module,
   attrs |-> (IF scoped THEN << <<"scoped", BoolTrue>> >> ELSE <<>>)
             \o (IF src # None THEN << <<"src", src>>, <<"lang", "scss">> >>
                 ELSE <<>>)
             \o (IF module # None THEN << <<"module", module>> >> ELSE <<>>)
             \o extra]

Styles ==
  { Style(sc, src, m, ex) :
      sc \in BOOLEAN, src \in {None, "./x.scss"},
      m \in {None, BoolTrue, "classes"},
      ex \in {<<>>, << <<"foo", "bar">> >>} }

StyleLists == UNION {[1..n -> Styles] : n \in 0..MaxStyles}

Custom1 ==
  [present |-> TRUE, content |-> "docs", type |-> "docs", src |-> None,
   attrs |-> << <<"a b", "k&v">> >>]

Custom2 ==
  [present |-> TRUE, content |-> "", type |-> "i18n", src |-> "./i.json",
   attrs |-> << <<"src", "./i.json">>, <<"lang", "json">> >>]

Descriptor(t, sc, st, cb) ==
  [present |-> TRUE, template |-> t, script |-> sc, styles |-> st,
   customBlocks |-> cb]

Options(devServer, hmr, isProduction, devTools, sourceMap, ssr, asCE) ==
  [devServer |-> devServer, hmr |-> hmr, isProduction |-> isProduction,
   devToolsEnabled |-> devTools, sourceMap |-> sourceMap, ssr |-> ssr,
   asCustomElement |-> asCE]

\* dev server absent, present with hot reload, present with hmr: false
DevServers == {<<FALSE, TRUE>>, <<TRUE, TRUE>>, <<TRUE, FALSE>>}

Input(d, p, o, e) == [desc |-> d, prev |-> p, opts |-> o, errors |-> e]

\* hot reload and render property: build mode, template, script, previous
\* descriptor and parse errors vary
HmrInputs ==
  { Input(Descriptor(t, sc, <<>>, <<>>),
          IF pk = "none" THEN NoDesc
          ELSE Descriptor(pt, IF pk = "script" THEN ScriptB ELSE sc, <<>>, <<>>),
          Options(ds[1], ds[2], prod, FALSE, FALSE, ssr, FALSE), e) :
      t \in Templates, sc \in {NoBlock, ScriptA, ScriptSetup},
      pk \in {"none", "same", "script"}, pt \in Templates,
      ds \in DevServers, prod \in BOOLEAN, ssr \in BOOLEAN,
      e \in ErrorLists }

\* style regions and custom-element mode vary
StyleInputs ==
  { Input(Descriptor(T1, ScriptA, st, <<>>), NoDesc,
          Options(TRUE, TRUE, FALSE, FALSE, FALSE, FALSE, ce), <<>>) :
      st \in StyleLists, ce \in BOOLEAN }

\* custom regions, template kind and devtools exposure vary
CustomInputs ==
  { Input(Descriptor(t, sc, st, cb), NoDesc,
          Options(dev, TRUE, prod, dt, FALSE, FALSE, FALSE), <<>>) :
      t \in {T1, T3}, sc \in {ScriptA, ScriptExt},
      st \in {<<>>, <<Style(TRUE, None, None, <<>>)>>},
      cb \in {<<>>, <<Custom1>>, <<Custom1, Custom2>>},
      dev \in BOOLEAN, prod \in BOOLEAN, dt \in BOOLEAN }

\* script text, script map and template map vary
MapInputs ==
  { Input(Descriptor(t, sc, <<>>, <<>>), NoDesc,
          Options(FALSE, TRUE, FALSE, FALSE, sm, FALSE, FALSE), <<>>) :
      t \in {NoBlock, T3}
            \cup {Template(1, None, None, <<>>, MapOf(ms, "new")) :
                    ms \in SUBSET TemplateMappingPool},
      sc \in {NoBlock, ScriptB, ScriptExt}
             \cup {ScriptLines(n, m) : n \in 0..MaxLines,
                                       m \in {NoMap, DefaultScriptMap}},
      sm \in BOOLEAN }

MainInputs == HmrInputs \cup StyleInputs \cup CustomInputs \cup MapInputs

\* ------------------------------------------------------------------ state
VARIABLES
  script,      \* injectIntoComponent: the script argument
  props,       \* attached properties
  hooks,       \* attached hooks
  pc,          \* position inside injectIntoComponent / transformScript
  policy,      \* matching policy being tried (1, 2, 3)
  matched,     \* insertion points as collected by the traversal
  insertions,  \* transformScript: pending insertions (sorted)
  count,       \* transformScript: number of collected insertions
  work,        \* transformScript: the local, running script text
  steps,       \* number of replacements applied in the current pass
  adjusted,    \* whether a pending insertion's end has been moved
  collected,   \* numInjections of each transformScript pass so far
  result,      \* text returned by injectIntoComponent, or None
  qpc,         \* attrsToQuery: "idle", "call" or "returned"
  qAttrs,      \* attrsToQuery: attrs
  qFallback,   \* attrsToQuery: langFallback
  qForce,      \* attrsToQuery: forceLangFallback
  qResult,     \* attrsToQuery: returned query
  mpc,         \* transformMain: position ("idle", "call", the stage to run
               \* next, "returned" or "thrown")
  desc,        \* descriptor produced by createDescriptor
  prev,        \* getPrevDescriptor(filename)
  opts,        \* options, ssr and asCustomElement
  parseErrors, \* errors produced by createDescriptor
  reported,    \* errors passed to pluginContext.error
  generated,   \* code generation stages that ran
  attachedProps,
  attachedHooks,
  output,      \* the output array
  styleRequests, \* virtual-module requests emitted for the style regions
  linked,      \* setSrcDescriptor calls made by linkSrcToDescriptor
  scriptCode,  \* script text produced by genScriptCode
  scriptMap,   \* map produced by genScriptCode
  scriptAst,   \* nodes the two matchers find in scriptCode
  templateCode,
  stylesCode,
  customBlocksCode,
  templateMap, \* map produced by genTemplateCode
  composedMap, \* resolvedMap after the source map block
  ret          \* value returned by transformMain

injVars == <<script, props, hooks, pc, policy, matched, insertions, count,
             work, steps, adjusted, collected, result>>

qVars == <<qpc, qAttrs, qFallback, qForce, qResult>>

mainVars == <<mpc, desc, prev, opts, parseErrors, reported, generated,
              attachedProps, attachedHooks, output, styleRequests, linked,
              scriptCode, scriptMap, scriptAst, templateCode, stylesCode,
              customBlocksCode, templateMap, composedMap, ret>>

vars == <<injVars, qVars, mainVars>>

NoOutputs ==
  /\ reported = <<>> /\ generated = {}
  /\ attachedProps = <<>> /\ attachedHooks = <<>>
  /\ output = <<>> /\ styleRequests = <<>> /\ linked = {}
  /\ scriptCode = <<>> /\ scriptMap = NoMap /\ templateMap = NoMap
  /\ scriptAst = [calls |-> <<>>, exports |-> <<>>]
  /\ templateCode = <<>> /\ stylesCode = <<>> /\ customBlocksCode = <<>>
  /\ composedMap = NoMap
  /\ ret = [kind |-> "pending"]

IdleMain ==
  /\ mpc = "idle"
  /\ desc = NoDesc /\ prev = NoDesc
  /\ opts = Options(FALSE, TRUE, FALSE, FALSE, FALSE, FALSE, FALSE)
  /\ parseErrors = <<>>
  /\ NoOutputs

IdleInject ==
  /\ script = <<>> /\ props = <<>> /\ hooks = <<>>
  /\ pc = "idle" /\ policy = 0
  /\ matched = <<>> /\ insertions = <<>> /\ count = 0
  /\ work = <<>> /\ steps = 0 /\ adjusted = FALSE /\ collected = <<>>
  /\ result = None

IdleQuery ==
  /\ qpc = "idle" /\ qAttrs = <<>> /\ qFallback = Undefined
  /\ qForce = FALSE /\ qResult = None

InitInject ==
  /\ script \in Scripts
  /\ \E rw \in RewriterInputs : props = rw.props /\ hooks = rw.hooks
  /\ pc = "policy1"
  /\ policy = 1
  /\ matched = <<>>
  /\ insertions = <<>>
  /\ count = 0
  /\ work = <<>>
  /\ steps = 0
  /\ adjusted = FALSE
  /\ collected = <<>>
  /\ result = None

\* transformScript up to the end of the validation loop
CollectWith(nodes) ==
  LET sorted == SortDesc(nodes) IN
  /\ matched' = nodes
  /\ count' = Len(nodes)
  /\ insertions' = sorted
  /\ work' = script
  /\ steps' = 0
  /\ adjusted' = FALSE
  /\ collected' = Append(collected, Len(nodes))
  /\ pc' = IF Interlacing(sorted) THEN "error" ELSE "rewrite"
  /\ UNCHANGED <<script, props, hooks, policy, result>>
  /\ UNCHANGED <<qVars, mainVars>>

\* policy 1: every defineComponent(...) call found by traverseAst
CollectCalls ==
  /\ pc = "policy1"
  /\ \E nodes \in NodeSeqs(Len(script), MaxIns) : CollectWith(nodes)

\* policy 2: the declaration of the (single) export default statement
CollectExportDefault ==
  /\ pc = "policy2"
  /\ \E nodes \in NodeSeqs(Len(script), 1) : CollectWith(nodes)

RewriteStep ==
  /\ pc = "rewrite"
  /\ insertions # <<>>
  /\ LET r == RewriteOne(work, insertions, props, hooks) IN
       /\ work' = r.text
       /\ insertions' = r.insertions
       /\ adjusted' = (adjusted \/ r.insertions # RestInsertions(insertions))
  /\ steps' = steps + 1
  /\ UNCHANGED <<script, props, hooks, pc, policy, matched, count,
                 collected, result>>
  /\ UNCHANGED <<qVars, mainVars>>

\* return [count, script] and the caller's `if (numInjections)`
ReturnInjected ==
  /\ pc = "rewrite"
  /\ insertions = <<>>
  /\ count > 0
  /\ result' = work
  /\ pc' = "done"
  /\ UNCHANGED <<script, props, hooks, policy, matched, insertions, count,
                 work, steps, adjusted, collected>>
  /\ UNCHANGED <<qVars, mainVars>>

FallThrough ==
  /\ pc = "rewrite"
  /\ insertions = <<>>
  /\ count = 0
  /\ policy' = policy + 1
  /\ pc' = IF policy = 1 THEN "policy2" ELSE "policy3"
  /\ UNCHANGED <<script, props, hooks, matched, insertions, count, work,
                 steps, adjusted, collected, result>>
  /\ UNCHANGED <<qVars, mainVars>>

\* policy 3: return `export default ${rewriter('{}')}`
Synthesize ==
  /\ pc = "policy3"
  /\ result' = <<"export default ">> \o rewriteAsIIFE(props, hooks, <<"{}">>)
  /\ pc' = "done"
  /\ UNCHANGED <<script, props, hooks, policy, matched, insertions, count,
                 work, steps, adjusted, collected>>
  /\ UNCHANGED <<qVars, mainVars>>

Next ==
  \/ CollectCalls
  \/ CollectExportDefault
  \/ RewriteStep
  \/ ReturnInjected
  \/ FallThrough
  \/ Synthesize

Init == InitInject /\ IdleQuery /\ IdleMain

Spec == Init /\ [][Next]_vars

\* ----------------------------------------------------- query encoder alone
InitQuery ==
  /\ IdleInject
  /\ IdleMain
  /\ qpc = "call"
  /\ qAttrs \in AttrMaps
  /\ qFallback \in Fallbacks
  /\ qForce \in BOOLEAN
  /\ qResult = None

CallAttrsToQuery ==
  /\ qpc = "call"
  /\ qResult' = attrsToQuery(qAttrs, qFallback, qForce)
  /\ qpc' = "returned"
  /\ UNCHANGED <<qAttrs, qFallback, qForce>>
  /\ UNCHANGED <<injVars, mainVars>>

NextQuery == CallAttrsToQuery

SpecQuery == InitQuery /\ [][NextQuery]_vars

\* ------------------------------------------------------- transformMain alone
InitMain ==
  /\ IdleInject
  /\ IdleQuery
  /\ mpc = "call"
  /\ \E in \in MainInputs :
       /\ desc = in.desc
       /\ prev = in.prev
       /\ opts = in.opts
       /\ parseErrors = in.errors
  /\ NoOutputs

inputVars == <<desc, prev, opts, parseErrors>>

\* lines 40-52: createDescriptor and the parse-error check
CheckErrors ==
  /\ mpc = "call"
  /\ IF Len(parseErrors) > 0
     THEN /\ reported' = ReportAll(parseErrors)
          /\ ret' = [kind |-> "null"]
          /\ mpc' = "returned"
     ELSE /\ mpc' = "script"
          /\ UNCHANGED <<reported, ret>>
  /\ UNCHANGED <<generated, attachedProps, attachedHooks, output,
                 styleRequests, linked, scriptCode, scriptMap, scriptAst,
                 templateCode, stylesCode, customBlocksCode, templateMap,
                 composedMap>>
  /\ UNCHANGED <<inputVars, injVars, qVars>>

\* lines 54-64: await genScriptCode
GenScript ==
  /\ mpc = "script"
  /\ LET sc == genScriptCode(desc) IN
       /\ scriptCode' = sc.code
       /\ scriptMap' = sc.map
       /\ scriptAst' = [calls |-> sc.calls, exports |-> sc.exports]
       /\ linked' = linked \cup sc.linked
  /\ generated' = generated \cup {"script"}
  /\ mpc' = "template"
  /\ UNCHANGED <<reported, attachedProps, attachedHooks, output,
                 styleRequests, templateCode, stylesCode, customBlocksCode,
                 templateMap, composedMap, ret>>
  /\ UNCHANGED <<inputVars, injVars, qVars>>

\* lines 66-94: await genTemplateCode and the render property
GenTemplate ==
  /\ mpc = "template"
  /\ IF HasTemplateImport(desc, opts)
     THEN LET tc == genTemplateCode(desc, opts.ssr) IN
          /\ templateCode' = tc.code
          /\ templateMap' = tc.map
          /\ linked' = linked \cup tc.linked
          /\ generated' = generated \cup {"template"}
     ELSE UNCHANGED <<templateCode, templateMap, linked, generated>>
  /\ attachedProps' = TemplateProps(desc, prev, opts)
  /\ mpc' = "styles"
  /\ UNCHANGED <<reported, attachedHooks, output, styleRequests, scriptCode,
                 scriptMap, scriptAst, stylesCode, customBlocksCode,
                 composedMap, ret>>
  /\ UNCHANGED <<inputVars, injVars, qVars>>

\* lines 96-102: await genStyleCode, which may throw
GenStyles ==
  /\ mpc = "styles"
  /\ LET st == genStyleCode(desc, opts.asCustomElement, attachedProps) IN
       /\ styleRequests' = st.requests
       /\ linked' = linked \cup st.linked
       /\ IF st.thrown
          THEN /\ mpc' = "thrown"
               /\ ret' = [kind |-> "thrown"]
               /\ UNCHANGED <<stylesCode, attachedProps>>
          ELSE /\ mpc' = "custom"
               /\ stylesCode' = st.code
               /\ attachedProps' = st.attached
               /\ UNCHANGED ret
  /\ generated' = generated \cup {"style"}
  /\ UNCHANGED <<reported, attachedHooks, output, scriptCode, scriptMap,
                 scriptAst, templateCode, customBlocksCode, templateMap,
                 composedMap>>
  /\ UNCHANGED <<inputVars, injVars, qVars>>

\* lines 104-105: await genCustomBlockCode
GenCustomBlocks ==
  /\ mpc = "custom"
  /\ LET cb == genCustomBlockCode(desc) IN
       /\ customBlocksCode' = cb.code
       /\ linked' = linked \cup cb.linked
  /\ generated' = generated \cup {"custom"}
  /\ mpc' = "assemble"
  /\ UNCHANGED <<reported, attachedProps, attachedHooks, output,
                 styleRequests, scriptCode, scriptMap, scriptAst,
                 templateCode, stylesCode, templateMap, composedMap, ret>>
  /\ UNCHANGED <<inputVars, injVars, qVars>>

\* lines 107-250: feature properties, hot reload, source map, injection,
\* final assembly and return
Assemble ==
  /\ mpc = "assemble"
  /\ LET ap == FeatureProps(desc, opts, attachedProps)
         hk == FeatureHooks(opts)
         out == FeatureOutput(desc, prev, opts, templateCode, stylesCode,
                              customBlocksCode)
         resolvedMap == ResolveMap(opts.sourceMap, scriptMap, templateMap,
                                   scriptCode)
         inj == injectIntoComponent(scriptCode, scriptAst.calls,
                                    scriptAst.exports, ap, hk)
     IN
       /\ attachedProps' = ap
       /\ attachedHooks' = hk
       /\ composedMap' = resolvedMap
       /\ IF inj.thrown
          THEN /\ output' = out
               /\ ret' = [kind |-> "thrown"]
               /\ mpc' = "thrown"
               /\ UNCHANGED generated
          ELSE /\ output' = Append(out, inj.code)
               /\ ret' = ReturnValue(desc, Join(Append(out, inj.code), "\n"),
                                     resolvedMap)
               /\ mpc' = "returned"
               /\ generated' = generated \cup {"inject"}
  /\ UNCHANGED <<reported, styleRequests, linked, scriptCode, scriptMap,
                 scriptAst, templateCode, stylesCode, customBlocksCode,
                 templateMap>>
  /\ UNCHANGED <<inputVars, injVars, qVars>>

NextMain ==
  \/ CheckErrors
  \/ GenScript
  \/ GenTemplate
  \/ GenStyles
  \/ GenCustomBlocks
  \/ Assemble

SpecMain == InitMain /\ [][NextMain]_vars

\* ======================================================= claims: rewriter
ExportDefaultStmt == <<"export default ">> \o rewriteAsIIFE(props, hooks, <<"{}">>)

\* C1 (as claimed): when neither policy 1 nor policy 2 matched anything, the
\* returned text is the input script with one `export default` statement
\* appended (directly or after a line break), the input text being kept.
C1_InputKeptAndExportAppended ==
  (pc = "done" /\ policy = 3) =>
    \/ result = script \o ExportDefaultStmt
    \/ result = script \o <<"\n">> \o ExportDefaultStmt

Contains(outer, inner) ==
  outer.start <= inner.start /\ inner.end <= outer.end /\ outer # inner

NestedPair(ins) ==
  /\ Len(ins) = 2
  /\ (Contains(ins[1], ins[2]) \/ Contains(ins[2], ins[1]))

OuterOf(ins) == IF Contains(ins[1], ins[2]) THEN ins[1] ELSE ins[2]
InnerOf(ins) == IF Contains(ins[1], ins[2]) THEN ins[2] ELSE ins[1]

NestedRewrite(text, o, i) ==
  Slice(text, 0, o.start)
  \o rewriteAsIIFE(props, hooks,
        Slice(text, o.start, i.start)
        \o rewriteAsIIFE(props, hooks, Slice(text, i.start, i.end))
        \o Slice(text, i.end, o.end))
  \o SliceFrom(text, o.end)

\* C2 (as claimed): with two matched ranges of which one fully contains the
\* other, the pass raises no error, and the returned text is the outer range
\* rewritten over the already rewritten inner range.
C2_NestedRangesRewritten ==
  NestedPair(matched) =>
    /\ pc # "error"
    /\ (pc = "done" =>
          result = NestedRewrite(script, OuterOf(matched), InnerOf(matched)))

PartialOverlap(a, b) ==
  /\ a.start < b.end /\ b.start < a.end
  /\ ~(a.start <= b.start /\ b.end <= a.end)
  /\ ~(b.start <= a.start /\ a.end <= b.end)

HasPartialOverlap(ins) ==
  \E i, j \in 1..Len(ins) : i # j /\ PartialOverlap(ins[i], ins[j])

\* C3: when two matched ranges of a pass partially overlap (neither contains
\* the other), the pass ends in the 'Interlacing insertion points' error with
\* no replacement applied, and injectIntoComponent returns no text and tries
\* no further policy.
C3_InterlacingAborts ==
  HasPartialOverlap(matched) =>
    /\ pc = "error"
    /\ steps = 0
    /\ work = script
    /\ result = None
    /\ policy = 1

C3_Witness ==
  /\ pc = "error"
  /\ HasPartialOverlap(matched)
  /\ Len(matched) = 2

RECURSIVE Reverse(_)
Reverse(s) == IF s = <<>> THEN <<>> ELSE Reverse(Tail(s)) \o <<Head(s)>>

\* reference single-pass builder over ranges in ascending order
RECURSIVE ReferenceBuild(_, _, _)
ReferenceBuild(text, cursor, ranges) ==
  IF ranges = <<>> THEN SliceFrom(text, cursor)
  ELSE Slice(text, cursor, Head(ranges).start)
       \o rewriteAsIIFE(props, hooks,
                        Slice(text, Head(ranges).start, Head(ranges).end))
       \o ReferenceBuild(text, Head(ranges).end, Tail(ranges))

\* C4: whenever a rewrite pass returns text, that text is byte-identical to
\* the reference builder that walks the matched ranges in ascending order,
\* copying each gap of the original text and the rewriter's output for each
\* matched substring.
C4_EqualsReferenceBuild ==
  (pc = "done" /\ policy \in {1, 2}) =>
    result = ReferenceBuild(script, 0, Reverse(SortDesc(matched)))

C4_Witness ==
  /\ pc = "done"
  /\ policy = 1
  /\ Len(matched) >= 2
  /\ props # <<>>
  /\ steps = Len(matched)
  /\ result # script

\* ------------------------------------------ claims: identity and policies
NoneAttached == props = <<>> /\ hooks = <<>>

\* the pass has ended: text was returned or the error was raised
PassEnded == pc \in {"done", "error"}

\* C11 (as claimed): with zero attached properties and zero attached hooks,
\* every call whose policy 1 or policy 2 pass collected at least one match
\* (no two matches partially overlapping) raises no error, leaves the running
\* text equal to the input throughout, and returns the input script unchanged.
C11_IdentityRewriterReturnsInput ==
  (NoneAttached /\ policy \in {1, 2} /\ count > 0
     /\ ~HasPartialOverlap(matched)) =>
    /\ pc # "error"
    /\ work = script
    /\ (pc = "done" => result = script)

\* C11, on the calls that return: with nothing attached, the text returned
\* under policy 1 or policy 2 is the input script.
C11_ReturnedTextIsInput ==
  (NoneAttached /\ pc = "done" /\ policy \in {1, 2}) => result = script

\* number of matches of the i-th transformScript pass of this call
CollectedBy(i) == IF i <= Len(collected) THEN collected[i] ELSE 0

\* C12 (as claimed): exactly one policy is applied per call, the first that
\* matches: when policy 1 collected at least one defineComponent call (no two
\* of them partially overlapping), the call ends with every collected call
\* rewritten and without a pass over the default export; the default-export
\* pass returns text only when policy 1 collected nothing; a default export
\* is synthesized only when both passes collected nothing.
C12_FirstMatchingPolicyApplied ==
  /\ (PassEnded /\ CollectedBy(1) > 0 /\ ~HasPartialOverlap(matched)) =>
       /\ pc = "done"
       /\ policy = 1
       /\ Len(collected) = 1
       /\ steps = count
       /\ result = ReferenceBuild(script, 0, Reverse(SortDesc(matched)))
  /\ (pc = "done" /\ policy = 2) =>
       /\ collected = <<0, count>>
       /\ count > 0
       /\ steps = count
  /\ (pc = "done" /\ policy = 3) =>
       /\ collected = <<0, 0>>
       /\ result = ExportDefaultStmt

\* C12, on the calls that return or raise: the order of the policies.
C12_PolicyOrderOnReturn ==
  /\ (pc = "done" /\ CollectedBy(1) > 0) =>
       /\ policy = 1
       /\ Len(collected) = 1
       /\ steps = count
       /\ result = ReferenceBuild(script, 0, Reverse(SortDesc(matched)))
  /\ (pc = "error") => (Len(collected) = policy /\ result = None)
  /\ (pc = "done" /\ policy = 2) =>
       (collected = <<0, count>> /\ count > 0 /\ steps = count)
  /\ (pc = "done" /\ policy = 3) =>
       (collected = <<0, 0>> /\ result = ExportDefaultStmt)

Disjoint(a, b) == a.end <= b.start \/ b.end <= a.start

PairwiseDisjoint(ins) ==
  \A i, j \in 1..Len(ins) : i # j => Disjoint(ins[i], ins[j])

\* the collected range a pending insertion came from
IsCollected(r) == \E i \in 1..Len(matched) : matched[i] = r

\* C13: whenever the adjacent-pair validation of a pass has passed, the
\* collected ranges are pairwise disjoint (every pair, none containing
\* another); during the rewrite loop no pending range's recorded end is ever
\* changed, and every pending range still covers, in the running text, the
\* substring it covered in the original script.
C13_ValidatedRangesDisjoint ==
  (pc \in {"rewrite", "done"} /\ policy \in {1, 2}) =>
    /\ PairwiseDisjoint(matched)
    /\ ~adjusted
    /\ \A i \in 1..Len(insertions) :
         /\ IsCollected(insertions[i])
         /\ Slice(work, insertions[i].start, insertions[i].end)
              = Slice(script, insertions[i].start, insertions[i].end)

C13_Witness ==
  /\ pc = "rewrite"
  /\ Len(matched) = 3
  /\ steps = 2
  /\ Len(insertions) = 1
  /\ props # <<>>
  /\ work # script

\* ================================================ claims: module assembler
Returned == mpc = "returned" /\ ret.kind = "module"

RECURSIVE CountLineBreakUnits(_)
CountLineBreakUnits(text) ==
  IF text = <<>> THEN 0
  ELSE (IF Head(text) = "\n" THEN 1 ELSE 0) + CountLineBreakUnits(Tail(text))

BothMaps ==
  Returned /\ opts.sourceMap /\ scriptMap.present /\ templateMap.present

ShiftedBy(k) ==
  { Mapping(m.genLine + k, m.genCol, m.source, m.origLine, m.origCol) :
      m \in {t \in templateMap.mappings : t.source # None} }

\* C5 (as claimed): with source maps enabled and both maps present, for script
\* text with N line breaks the composed map consists of the script mappings
\* and every template mapping of known source with its generated line
\* increased by exactly N; template mappings of unknown source are dropped.
C5_ShiftedByLineBreaks ==
  BothMaps =>
    composedMap.mappings =
      scriptMap.mappings \cup ShiftedBy(CountLineBreakUnits(scriptCode))

\* C5 (amended): the generated line of every template mapping of known source
\* is increased by N + 1 (line 1 lands on line N + 2), its generated column
\* and original position are unchanged, and template mappings of unknown
\* source are dropped.
C5_ShiftedByLineBreaksPlusOne ==
  BothMaps =>
    /\ composedMap.mappings =
         scriptMap.mappings \cup ShiftedBy(CountLineBreakUnits(scriptCode) + 1)
    /\ \A m \in composedMap.mappings : m.source # None

C5_Witness ==
  /\ BothMaps
  /\ CountLineBreakUnits(scriptCode) = 2
  /\ \E m \in templateMap.mappings : m.source = None
  /\ \E m \in templateMap.mappings : m.source # None /\ m.genLine = 1
  /\ Mapping(4, 0, Basename, 3, 2) \in composedMap.mappings

RankClaimed(tok) ==
  CASE tok = "?vue&type=style" -> 1
    [] tok = "&index=" -> 2
    [] tok = "&src=" -> 3
    [] tok = "&scoped=" -> 4
    [] tok = "&inline" -> 5
    [] tok = "&" -> 6
    [] tok = "&lang" -> 7
    [] OTHER -> 0

RankAmended(tok) ==
  CASE tok = "?vue&type=style" -> 1
    [] tok = "&index=" -> 2
    [] tok = "&src=" -> 3
    [] tok = "&inline" -> 4
    [] tok = "&scoped=" -> 5
    [] tok = "&" -> 6
    [] tok = "&lang" -> 7
    [] OTHER -> 0

StyleRequestShape(req) ==
  /\ Len(req) >= 7
  /\ req[2] = "?vue&type=style"
  /\ req[3] = "&index="
  /\ req[Len(req) - 2] = "&lang"
  /\ \A i \in 1..Len(req) :
       req[i] \in {"?vue&type=style", "&index=", "&src=", "&scoped=",
                   "&inline", "&lang"}
         => \A j \in 1..Len(req) : req[j] = req[i] => j = i

\* C6 (as claimed): every style request lists type and index, then the src
\* marker, then the scoped marker, then the inline marker, then the
\* non-reserved attributes, then the language parameter last.
C6_OrderScopedBeforeInline ==
  \A k \in 1..Len(styleRequests) :
    LET req == styleRequests[k] IN
    /\ StyleRequestShape(req)
    /\ \A i, j \in 1..Len(req) :
         (i < j /\ RankClaimed(req[i]) > 0 /\ RankClaimed(req[j]) > 0)
           => RankClaimed(req[i]) <= RankClaimed(req[j])

\* C6 (amended): every style request lists type and index, then the src
\* marker, then the custom-element inline marker, then the scoped marker, then
\* the non-reserved attributes in declaration order, then the language
\* parameter last.
C6_OrderInlineBeforeScoped ==
  \A k \in 1..Len(styleRequests) :
    LET req == styleRequests[k] IN
    /\ StyleRequestShape(req)
    /\ \A i, j \in 1..Len(req) :
         (i < j /\ RankAmended(req[i]) > 0 /\ RankAmended(req[j]) > 0)
           => RankAmended(req[i]) <= RankAmended(req[j])

C6_Witness ==
  /\ Returned
  /\ \E k \in 1..Len(styleRequests) :
       LET req == styleRequests[k] IN
       \A tok \in {"&src=", "&inline", "&scoped=", "&", "&lang"} :
         \E i \in 1..Len(req) : req[i] = tok

HotReloadOn ==
  opts.devServer /\ opts.hmr /\ ~opts.ssr /\ ~opts.isProduction

SameRegion(a, b) ==
  IF ~a.present \/ ~b.present THEN a.present = b.present
  ELSE a.content = b.content /\ a.src = b.src /\ a.attrs = b.attrs

OnlyTemplateDiffers ==
  /\ prev.present
  /\ ~SameRegion(prev.template, desc.template)
  /\ SameRegion(prev.script, desc.script)
  /\ Len(prev.styles) = Len(desc.styles)
  /\ \A i \in 1..Len(desc.styles) : SameRegion(prev.styles[i], desc.styles[i])
  /\ Len(prev.customBlocks) = Len(desc.customBlocks)
  /\ \A i \in 1..Len(desc.customBlocks) :
       SameRegion(prev.customBlocks[i], desc.customBlocks[i])

MarkerEmitted ==
  \E i \in 1..Len(output) : output[i] = <<"export const _rerender_only = true">>

MarkerThenAcceptBlock ==
  \E i \in 1..Len(output) :
    /\ output[i] = <<"export const _rerender_only = true">>
    /\ i + 9 <= Len(output)
    /\ output[i + 1] = <<"import.meta.hot.accept(mod => {">>
    /\ output[i + 9] = <<"})">>

IsRenderProp(pr) == pr[1] \in {"render", "ssrRender"}

IsNoopRender(pr) == IsRenderProp(pr) /\ pr[2] = <<"() => {}">>

NoopAttached == \E i \in 1..Len(attachedProps) : IsNoopRender(attachedProps[i])

RECURSIVE NonReserved(_)
NonReserved(attrs) ==
  IF attrs = <<>> THEN <<>>
  ELSE (IF Head(attrs)[1] \in
            {"id", "index", "src", "type", "lang", "module", "scoped", "generic"}
        THEN <<>> ELSE <<Head(attrs)>>)
       \o NonReserved(Tail(attrs))

ParamOf(a) ==
  IF a[2] = "" THEN <<"&", encodeURIComponent(a[1])>>
  ELSE <<"&", encodeURIComponent(a[1]), "=", encodeURIComponent(a[2])>>

ExpectedTag(attrs, fallback, force) ==
  IF (\E i \in 1..Len(attrs) : attrs[i][1] = "lang") /\ ~force
  THEN ToText(attrs[CHOOSE i \in 1..Len(attrs) : attrs[i][1] = "lang"][2])
  ELSE fallback

TypeOK == pc \in {"policy1", "policy2", "policy3", "rewrite", "done", "error"}
====
